---------------------------- MODULE Spec2Model ----------------------------
(***************************************************************************)
(* FitMirror: the Local Store (services/storage.ts), the two Provider      *)
(* Clients (services/fal.ts and its earlier revision, services/            *)
(* openrouter.ts) and the processing screens that drive them               *)
(* (app/processing.tsx and its earlier OpenRouter revision).               *)
(*                                                                         *)
(* One behaviour follows one Provider Client (svc): the clients keep       *)
(* disjoint in-memory configuration and disjoint setting keys.             *)
(***************************************************************************)
EXTENDS Integers, Sequences, FiniteSets, TLC

VARIABLES
    \* ---- StorageService (services/storage.ts)
    settings,        \* this.data.settings
    galleryItems,    \* this.data.galleryItems
    userProfile,     \* this.data.userProfile
    diskSettings,    \* AsyncStorage item '@fitmirror:settings'
    diskGallery,     \* AsyncStorage item '@fitmirror:gallery'
    diskProfile,     \* AsyncStorage item '@fitmirror:profile'
    loadState,       \* progress of the un-awaited initialize() of this run
    loadSnap,        \* what the getItem calls of loadFromStorage returned
    pending,         \* gallery flushes issued to AsyncStorage and not yet completed
    now,             \* Date.now()
    \* ---- Provider Client
    svc,             \* which client this behaviour follows
    apiKey,          \* this.config.apiKey
    credentials,     \* the credentials held by the fal client (fal.config)
    \* ---- one generateStyleMeWithRetry / generateTryOnWithRetry invocation
    pc,              \* where the invocation stands
    caller,          \* who awaits it: "none", "direct", "workflow"
    request,         \* the two image references it was given
    maxRetries,      \* its maxRetries argument
    attempt,         \* the loop counter of generateTryOnWithRetry
    nUploads,        \* image uploads dispatched by this invocation
    nGen,            \* generation requests dispatched by this invocation
    response,        \* the provider's last answer to it
    result,          \* what it returned
    atCall,          \* history: the key setting's state when it was called and
                     \* the key loaded then
    \* ---- the last completed getApiKeyFromStorage / testConnection
    last,
    \* ---- processing screen
    userImage, outfitImage, isProcessing, wfState,
    active,          \* the screen is the one shown (not left by router.back())
    keyChecks,       \* handler runs suspended at their awaited key check
    calls,           \* generation calls of such runs that are in flight
    \* ---- history of the key setting
    lastSet,         \* argument of the last completed setApiKey still in force
    written,         \* per key, the value of the last completed setSetting still in force
    lastProfile,     \* argument of the last completed setUserProfile of this run
    cleared          \* clearApiKey completed and no key was set since

storeVars  ==
    <<settings, galleryItems, userProfile, diskSettings, diskGallery, diskProfile,
      loadState, loadSnap, pending, now>>
clientVars == <<svc, apiKey, credentials>>
callVars   == <<pc, caller, request, maxRetries, attempt, nUploads, nGen, response, result, atCall>>
wfVars     == <<userImage, outfitImage, isProcessing, wfState, active, keyChecks, calls>>
histVars   == <<lastSet, cleared, written, lastProfile>>
vars       == <<storeVars, clientVars, callVars, last, wfVars, histVars>>

-----------------------------------------------------------------------------
(* Bounds *)

MaxRetryArg == 3
MaxGallery  == 2
MaxNow      == 1
MaxItems    == 3   \* gallery items the store operations keep at most
MaxPending  == 2   \* gallery flushes in flight at once
MaxTaps     == 2

-----------------------------------------------------------------------------
(* Values *)

Services == {"fal", "falLegacy", "openrouter"}

\* JavaScript's undefined (a missing property) and null.
Undefined == "undefined"
Null      == "null"

\* JavaScript's true, false and 0 as setting values.
True  == "true"
False == "false"
Zero  == "0"

\* Keys a user may type; " k1" carries a leading blank.
Keys == {"", "k1", " k1"}

SettingKeys == {"fal_api_key", "openrouter_api_key", "dark_mode"}

ApiKeySetting(s) == IF s = "openrouter" THEN "openrouter_api_key" ELSE "fal_api_key"

EmptySettings == [k \in SettingKeys |-> Undefined]

\* JavaScript truthiness of a setting value or string.
Truthy(v) == v \notin {"", Undefined, Null, False, Zero}

\* /^[a-zA-Z0-9\-_]+$/ over the keys above.
MatchesKeyFormat(k) == k = "k1"

\* No setApiKey is in force.
NoKeySet == "none"

\* No setSetting is in force for a key.
NotWritten == "not-written"
NothingWritten == [k \in SettingKeys |-> NotWritten]

\* User profiles: one with a profileImage, one without; and the null profile.
Profiles ==
    {[name |-> "Ann", email |-> "ann@example.com", profileImage |-> "file:///ann.jpg"],
     [name |-> "Bob", email |-> "bob@example.com", profileImage |-> Undefined]}
NoProfile == [name |-> Null, email |-> Null, profileImage |-> Undefined]

\* What the last getApiKeyFromStorage / testConnection gave its caller, held
\* until the next operation: the key returned, the result object, and for
\* testConnection what the fetch gave and which requests were sent.
NoLast ==
    [op |-> "none", ret |-> "", success |-> FALSE, error |-> <<>>,
     outcome |-> "none", status |-> 0, probes |-> 0, gens |-> 0,
     key |-> "", profile |-> NoProfile, overlapped |-> FALSE, raised |-> FALSE,
     delay |-> 0]

-----------------------------------------------------------------------------
(* AsyncStorage blobs: JSON.stringify / JSON.parse *)

\* An absent item (getItem gives null).
NoItem == [has |-> FALSE, json |-> {}]

\* JSON.stringify of the settings object: its own properties only.
StringifySettings(s) ==
    [has |-> TRUE, json |-> {<<k, s[k]>> : k \in {x \in SettingKeys : s[x] # Undefined}}]

\* JSON.parse of a settings blob.
ParseSettings(b) ==
    [k \in SettingKeys |->
        IF \E p \in b.json : p[1] = k
        THEN (CHOOSE p \in b.json : p[1] = k)[2]
        ELSE Undefined]

\* JSON.stringify / JSON.parse of the gallery array.
StringifyGallery(g) == [has |-> TRUE, json |-> g]
ParseGallery(b) == b.json
NoGalleryItem == [has |-> FALSE, json |-> <<>>]

\* JSON.stringify / JSON.parse of the profile: a property that is undefined
\* is left out, an absent one reads as undefined.
StringifyProfile(p) ==
    [has |-> TRUE, json |-> {<<f, p[f]>> : f \in {x \in DOMAIN p : p[x] # Undefined}}]
ParseProfile(b) ==
    [f \in {"name", "email", "profileImage"} |->
        IF \E q \in b.json : q[1] = f
        THEN (CHOOSE q \in b.json : q[1] = f)[2]
        ELSE Undefined]
NoProfileItem == [has |-> FALSE, json |-> {}]

-----------------------------------------------------------------------------
(* StorageService: services/storage.ts *)

\* getSetting: this.data.settings[key] || null
getSetting(key) == IF Truthy(settings[key]) THEN settings[key] ELSE Null

\* The client's key setting as the store holds it in memory and as durable
\* storage holds it.
StoredKey == settings[ApiKeySetting(svc)]
DurableKey ==
    IF diskSettings.has THEN ParseSettings(diskSettings)[ApiKeySetting(svc)] ELSE Undefined

\* A setting as durable storage holds it.
DurableSetting(k) == IF diskSettings.has THEN ParseSettings(diskSettings)[k] ELSE Undefined

\* The settings object after setSetting / deleteSetting.
SettingsAfterSet(key, value) == [settings EXCEPT ![key] = value]
SettingsAfterDelete(key) == [settings EXCEPT ![key] = Undefined]

\* saveSettings: one AsyncStorage.setItem whose failure is swallowed.
\* A store operation that lets a rejected AsyncStorage call through.
StoreCatches_Never == FALSE

\* saveSettings, saveGallery, saveProfile and clearAllData wrap their
\* AsyncStorage calls in try / catch and only log the rejection.
StoreCatches == TRUE

\* Whether the operation raises to its caller, given that its AsyncStorage
\* calls all succeeded (ok) or not.
Raises(ok) == ~ok /\ ~StoreCatches

saveSettings(ok) ==
    diskSettings' = IF ok THEN StringifySettings(settings') ELSE diskSettings

\* saveGallery: one AsyncStorage.setItem whose failure is swallowed.
saveGallery(ok) ==
    diskGallery' = IF ok THEN StringifyGallery(galleryItems') ELSE diskGallery

\* saveProfile: one AsyncStorage.setItem whose failure is swallowed.
saveProfile(ok) ==
    diskProfile' = IF ok THEN StringifyProfile(userProfile') ELSE diskProfile

\* What the three getItem calls of loadFromStorage give (rejected: nothing).
NoSnap ==
    [ok |-> FALSE, settings |-> NoItem, gallery |-> NoGalleryItem, profile |-> NoProfileItem]

\* loadFromStorage, first half: the getItem calls read durable storage.
LoadRead ==
    /\ loadState = "reading"
    /\ \E ok \in BOOLEAN :
         loadSnap' = IF ok
                     THEN [ok |-> TRUE, settings |-> diskSettings, gallery |-> diskGallery,
                           profile |-> diskProfile]
                     ELSE NoSnap
    /\ loadState' = "read"
    /\ UNCHANGED <<settings, galleryItems, userProfile, diskSettings, diskGallery,
                   diskProfile, pending, now>>
    /\ UNCHANGED <<clientVars, callVars, wfVars, histVars>>
    /\ last' = NoLast

\* The in-memory sections after the load resumes with the snapshot.
\* Items whose text is not JSON: JSON.parse throws on them.
CorruptItem == [has |-> TRUE, json |-> {<<"corrupt", "corrupt">>}]
CorruptGalleryItem ==
    [has |-> TRUE,
     json |-> <<[id |-> <<0, "corrupt">>, uri |-> "corrupt", type |-> "corrupt",
                 timestamp |-> 0]>>]
Parses(b) == b # CorruptItem
GalleryParses(b) == b # CorruptGalleryItem

\* The three JSON.parse calls of loadFromStorage run one after the other in
\* one try block: the first that throws ends the block, and the sections
\* after it keep what they held.
SettingsAfterLoad(snap) ==
    IF snap.ok /\ snap.settings.has /\ Parses(snap.settings)
    THEN ParseSettings(snap.settings)
    ELSE settings

GalleryReached(snap) == snap.ok /\ (snap.settings.has => Parses(snap.settings))

GalleryAfterLoad(snap) ==
    IF GalleryReached(snap) /\ snap.gallery.has /\ GalleryParses(snap.gallery)
    THEN ParseGallery(snap.gallery)
    ELSE galleryItems

ProfileReached(snap) ==
    GalleryReached(snap) /\ (snap.gallery.has => GalleryParses(snap.gallery))

ProfileAfterLoad(snap) ==
    IF ProfileReached(snap) /\ snap.profile.has /\ Parses(snap.profile)
    THEN ParseProfile(snap.profile)
    ELSE userProfile

\* Durable storage is damaged: a stored item no longer holds JSON.
CorruptBlob ==
    /\ \E which \in {"settings", "gallery", "profile"} :
         /\ which = "settings" => diskSettings.has
         /\ which = "gallery" => diskGallery.has
         /\ which = "profile" => diskProfile.has
         /\ diskSettings' = IF which = "settings" THEN CorruptItem ELSE diskSettings
         /\ diskGallery' = IF which = "gallery" THEN CorruptGalleryItem ELSE diskGallery
         /\ diskProfile' = IF which = "profile" THEN CorruptItem ELSE diskProfile
    /\ UNCHANGED <<settings, galleryItems, userProfile, loadState, loadSnap, pending, now>>
    /\ UNCHANGED <<clientVars, callVars, wfVars, histVars>>
    /\ last' = NoLast

\* loadFromStorage, second half, and initialize's this.initialized = true.
LoadApply ==
    /\ loadState = "read"
    /\ settings' = SettingsAfterLoad(loadSnap)
    /\ galleryItems' = GalleryAfterLoad(loadSnap)
    /\ userProfile' = ProfileAfterLoad(loadSnap)
    /\ loadState' = "done"
    /\ loadSnap' = NoSnap
    /\ UNCHANGED <<diskSettings, diskGallery, diskProfile, pending, now>>
    /\ UNCHANGED <<clientVars, callVars, wfVars, histVars>>
    /\ last' = NoLast

\* deleteSetting(key), called on the store directly for the client's key.
DeleteSetting ==
    /\ settings' = SettingsAfterDelete(ApiKeySetting(svc))
    /\ \E ok \in BOOLEAN : saveSettings(ok)
    /\ lastSet' = NoKeySet
    /\ written' = [written EXCEPT ![ApiKeySetting(svc)] = NotWritten]
    /\ UNCHANGED <<galleryItems, userProfile, diskGallery, diskProfile, loadState, loadSnap, pending,
                   now, cleared, lastProfile>>
    /\ UNCHANGED <<clientVars, callVars, wfVars>>
    /\ last' = NoLast

\* clearAllData: the data object is replaced, the three items are removed.
ClearAllData ==
    /\ settings' = EmptySettings
    /\ galleryItems' = <<>>
    /\ userProfile' = NoProfile
    /\ \E okS \in BOOLEAN, okG \in BOOLEAN, okP \in BOOLEAN :
         /\ diskSettings' = IF okS THEN NoItem ELSE diskSettings
         /\ diskGallery' = IF okG THEN NoGalleryItem ELSE diskGallery
         /\ diskProfile' = IF okP THEN NoProfileItem ELSE diskProfile
         /\ last' = [NoLast EXCEPT !.op = "clearAllData",
                                   !.success = okS /\ okG /\ okP,
                                   !.raised = Raises(okS /\ okG /\ okP)]
    /\ lastSet' = NoKeySet
    /\ written' = NothingWritten
    /\ lastProfile' = NoProfile
    /\ UNCHANGED <<loadState, loadSnap, pending, now, cleared>>
    /\ UNCHANGED <<clientVars, callVars, wfVars>>

\* A save that leaves the list as it was.
GalleryAfterSave_Dropped(uri, type, t, r) == galleryItems

\* saveGalleryItem(uri, type) at time t with random suffix r: the new list.
GalleryAfterSave(uri, type, t, r) ==
    Append(galleryItems, [id |-> <<t, r>>, uri |-> uri, type |-> type, timestamp |-> t])

RandomSuffixes == {"a", "b"}

\* Values written under 'dark_mode' (ThemeContext stores a boolean) and two
\* further falsy values a caller may store.
SettingValues == {True, False, Zero, ""}

\* setSetting(key, value), awaited.
SetSetting(key, v) ==
    /\ settings' = SettingsAfterSet(key, v)
    /\ \E ok \in BOOLEAN :
         /\ saveSettings(ok)
         /\ last' = [NoLast EXCEPT !.op = "setSetting", !.key = key, !.raised = Raises(ok)]
    /\ written' = [written EXCEPT ![key] = v]
    /\ UNCHANGED <<galleryItems, userProfile, diskGallery, diskProfile, loadState, loadSnap, pending,
                   now, lastSet, cleared, lastProfile>>
    /\ UNCHANGED <<clientVars, callVars, wfVars>>

\* deleteSetting(key), awaited, for a key no Provider Client owns.
DeleteStoredSetting(key) ==
    /\ settings' = SettingsAfterDelete(key)
    /\ \E ok \in BOOLEAN :
         /\ saveSettings(ok)
         /\ last' = [NoLast EXCEPT !.raised = Raises(ok)]
    /\ written' = [written EXCEPT ![key] = NotWritten]
    /\ UNCHANGED <<galleryItems, userProfile, diskGallery, diskProfile, loadState, loadSnap, pending,
                   now, lastSet, cleared, lastProfile>>
    /\ UNCHANGED <<clientVars, callVars, wfVars>>

\* getSetting(key).
GetSetting(key) ==
    /\ last' = [NoLast EXCEPT !.op = "getSetting", !.key = key, !.ret = getSetting(key)]
    /\ UNCHANGED <<storeVars, clientVars, callVars, wfVars, histVars>>

\* Image references kept in the gallery.
GalleryUris == {"file:///photo.jpg"}
GalleryTypes == {"user", "outfit", "result"}

\* saveGalleryItem(uri, type), awaited, for a type of Types; Rs is what
\* Math.random may give.
SaveGalleryItem(Types, Rs) ==
    /\ Len(galleryItems) < MaxItems
    /\ \E uri \in GalleryUris, type \in Types, t \in now..MaxNow, r \in Rs,
          ok \in BOOLEAN :
         /\ galleryItems' = GalleryAfterSave(uri, type, t, r)
         /\ now' = t
         /\ saveGallery(ok)
         /\ last' = [NoLast EXCEPT !.op = "saveGalleryItem", !.ret = <<t, r>>,
                                   !.raised = Raises(ok)]
    /\ UNCHANGED <<settings, userProfile, diskSettings, diskProfile, loadState, loadSnap, pending>>
    /\ UNCHANGED <<clientVars, callVars, wfVars, histVars>>

\* Overlapping saveGalleryItem calls.  A call pushes its item and hands
\* JSON.stringify(this.data.galleryItems) to AsyncStorage.setItem before its
\* first suspension; the call returns when that setItem has completed.
\* AsyncStorage completes the setItem calls made on it in the order they
\* were made.
SaveGalleryItem_issue(Types, Rs) ==
    /\ Len(galleryItems) < MaxItems
    /\ Len(pending) < MaxPending
    /\ \E uri \in GalleryUris, type \in Types, t \in now..MaxNow, r \in Rs :
         /\ galleryItems' = GalleryAfterSave(uri, type, t, r)
         /\ now' = t
    /\ pending' = Append(pending, [payload |-> StringifyGallery(galleryItems'),
                                   overlapped |-> pending # <<>>])
    /\ UNCHANGED <<settings, userProfile, diskSettings, diskGallery, diskProfile,
                   loadState, loadSnap>>
    /\ UNCHANGED <<clientVars, callVars, wfVars, histVars>>
    /\ last' = NoLast

\* The pending flush that completes next, taken last-issued first.
NextToComplete_Newest == Len(pending)

\* The pending flush that completes next: the one issued first.
NextToComplete == 1

\* A pending setItem completes, written or rejected (saveGallery swallows the
\* rejection), and its saveGalleryItem call returns.
SaveGalleryItem_flushed ==
    /\ pending # <<>>
    /\ \E ok \in BOOLEAN :
         /\ diskGallery' = IF ok THEN pending[NextToComplete].payload ELSE diskGallery
         /\ last' = [NoLast EXCEPT !.op = "flushed", !.success = ok,
                                   !.overlapped = pending[NextToComplete].overlapped]
    /\ pending' = [i \in 1..(Len(pending) - 1) |->
                     IF i < NextToComplete THEN pending[i] ELSE pending[i + 1]]
    /\ UNCHANGED <<settings, galleryItems, userProfile, diskSettings, diskProfile,
                   loadState, loadSnap, now>>
    /\ UNCHANGED <<clientVars, callVars, wfVars, histVars>>

\* deleteGalleryItem(id), awaited.
DeleteGalleryItem ==
    /\ \E i \in 1..Len(galleryItems), ok \in BOOLEAN :
         /\ galleryItems' = SelectSeq(galleryItems, LAMBDA x : x.id # galleryItems[i].id)
         /\ saveGallery(ok)
         /\ last' = [NoLast EXCEPT !.raised = Raises(ok)]
    /\ UNCHANGED <<settings, userProfile, diskSettings, diskProfile, loadState, loadSnap, pending, now>>
    /\ UNCHANGED <<clientVars, callVars, wfVars, histVars>>

\* A clear that empties the list.
GalleryAfterClearCache_All == <<>>

\* clearCache: the list it leaves.
GalleryAfterClearCache == SelectSeq(galleryItems, LAMBDA x : x.type # "result")

\* clearCache, awaited.
ClearCache ==
    /\ galleryItems' = GalleryAfterClearCache
    /\ \E ok \in BOOLEAN :
         /\ saveGallery(ok)
         /\ last' = [NoLast EXCEPT !.op = "clearCache", !.raised = Raises(ok)]
    /\ UNCHANGED <<settings, userProfile, diskSettings, diskProfile, loadState, loadSnap, pending, now>>
    /\ UNCHANGED <<clientVars, callVars, wfVars, histVars>>

\* setUserProfile(profile), awaited: the reference is replaced whole.
SetUserProfile(p) ==
    /\ userProfile' = p
    /\ \E ok \in BOOLEAN :
         /\ saveProfile(ok)
         /\ last' = [NoLast EXCEPT !.raised = Raises(ok)]
    /\ lastProfile' = p
    /\ UNCHANGED <<settings, galleryItems, diskSettings, diskGallery, loadState, loadSnap, pending,
                   now, lastSet, cleared, written>>
    /\ UNCHANGED <<clientVars, callVars, wfVars>>

\* getUserProfile().
GetUserProfile ==
    /\ last' = [NoLast EXCEPT !.op = "getUserProfile", !.profile = userProfile]
    /\ UNCHANGED <<storeVars, clientVars, callVars, wfVars, histVars>>

-----------------------------------------------------------------------------
(* Provider Client: key lifecycle *)

IsFal(s) == s \in {"fal", "falLegacy"}

\* loadApiKey: the stored key replaces config.apiKey only when it is truthy.
KeyAfterLoad(stored, current) == IF Truthy(stored) THEN stored ELSE current

\* configureFalClient runs inside loadApiKey only when the stored key is truthy.
CredentialsAfterLoad(stored, current) ==
    IF IsFal(svc) /\ Truthy(stored) THEN stored ELSE current

\* configureFalClient after setApiKey / clearApiKey (FalService only).
CredentialsAfterConfigure(key) == IF IsFal(svc) THEN key ELSE credentials

\* setApiKey(k)
SetApiKey(k) ==
    /\ apiKey' = k
    /\ settings' = SettingsAfterSet(ApiKeySetting(svc), k)
    /\ \E ok \in BOOLEAN : saveSettings(ok)
    /\ credentials' = CredentialsAfterConfigure(k)
    /\ lastSet' = k
    /\ cleared' = FALSE
    /\ written' = [written EXCEPT ![ApiKeySetting(svc)] = k]
    /\ UNCHANGED <<galleryItems, userProfile, diskGallery, diskProfile, loadState, loadSnap, pending,
                   now, lastProfile>>
    /\ UNCHANGED <<svc, callVars, wfVars>>
    /\ last' = NoLast

\* clearApiKey()
ClearApiKey ==
    /\ apiKey' = ""
    /\ settings' = SettingsAfterDelete(ApiKeySetting(svc))
    /\ \E ok \in BOOLEAN : saveSettings(ok)
    /\ credentials' = CredentialsAfterConfigure("")
    /\ lastSet' = NoKeySet
    /\ cleared' = TRUE
    /\ written' = [written EXCEPT ![ApiKeySetting(svc)] = NotWritten]
    /\ UNCHANGED <<galleryItems, userProfile, diskGallery, diskProfile, loadState, loadSnap, pending,
                   now, lastProfile>>
    /\ UNCHANGED <<svc, callVars, wfVars>>
    /\ last' = NoLast

\* getApiKeyFromStorage(): loadApiKey, then return config.apiKey
GetApiKeyFromStorage ==
    LET stored == getSetting(ApiKeySetting(svc)) IN
    /\ apiKey' = KeyAfterLoad(stored, apiKey)
    /\ credentials' = CredentialsAfterLoad(stored, credentials)
    /\ last' = [NoLast EXCEPT !.op = "getApiKeyFromStorage", !.ret = apiKey']
    /\ UNCHANGED <<svc, storeVars, callVars, wfVars, histVars>>

-----------------------------------------------------------------------------
(* Provider Client: testConnection *)

Statuses == {200, 302, 401, 404, 500}

\* What a fetch gives: an HTTP answer, or a rejection (network failure).
NetworkFailure == [net |-> FALSE, status |-> 0]
Outcomes == {NetworkFailure} \cup {[net |-> TRUE, status |-> s] : s \in Statuses}

\* Response.ok
ResponseOk(status) == status >= 200 /\ status < 300

\* The request testConnection sends once the key checks have passed.
TestRequest(s) ==
    CASE s = "fal"        -> "HEAD https://fal.run"
      [] s = "falLegacy"  -> "POST https://fal.run/fal-ai/nano-banana"
      [] s = "openrouter" -> "GET https://openrouter.ai/api/v1/models"

\* The requests generation sends.
GenerationRequest(s) ==
    IF s = "openrouter"
    THEN "POST https://openrouter.ai/api/v1/chat/completions"
    ELSE "POST https://fal.run/fal-ai/nano-banana/edit"

\* The provider endpoints that run a (billable) generation: the two above and
\* the text-to-image model generateImage calls.
GenerationEndpoints ==
    {GenerationRequest(s) : s \in Services} \cup {"POST https://fal.run/fal-ai/nano-banana"}

\* Whether testConnection gets as far as its fetch with this key.
TestSendsRequest(s, key) ==
    /\ Truthy(key)
    /\ s = "fal" => MatchesKeyFormat(key)

\* A classification that counts only a 2xx answer as a working connection.
Fal_testConnection_Only2xx(key, o) ==
    IF ~Truthy(key) THEN [success |-> FALSE, error |-> <<"API key is required">>]
    ELSE IF ~MatchesKeyFormat(key)
         THEN [success |-> FALSE, error |-> <<"Invalid API key format">>]
    ELSE IF ~o.net THEN [success |-> FALSE, error |-> <<"Network request failed">>]
    ELSE IF o.status = 401 THEN [success |-> FALSE, error |-> <<"Invalid API key">>]
    ELSE IF ResponseOk(o.status) THEN [success |-> TRUE, error |-> <<>>]
    ELSE [success |-> FALSE, error |-> <<"Service unavailable (HTTP ", "status", ")">>]

\* FalService.testConnection after loadApiKey (services/fal.ts).
Fal_testConnection(key, o) ==
    IF ~Truthy(key) THEN [success |-> FALSE, error |-> <<"API key is required">>]
    ELSE IF ~MatchesKeyFormat(key)
         THEN [success |-> FALSE, error |-> <<"Invalid API key format">>]
    ELSE IF ~o.net THEN [success |-> FALSE, error |-> <<"Network request failed">>]
    ELSE IF o.status = 401 THEN [success |-> FALSE, error |-> <<"Invalid API key">>]
    ELSE IF o.status >= 200 /\ o.status < 500 THEN [success |-> TRUE, error |-> <<>>]
    ELSE [success |-> FALSE, error |-> <<"Service unavailable (HTTP ", "status", ")">>]

\* FalService.testConnection of the earlier revision of services/fal.ts.
FalLegacy_testConnection(key, o) ==
    IF ~Truthy(key) THEN [success |-> FALSE, error |-> <<"API key is required">>]
    ELSE IF ~o.net THEN [success |-> FALSE, error |-> <<"Network request failed">>]
    ELSE IF ResponseOk(o.status) THEN [success |-> TRUE, error |-> <<>>]
    ELSE [success |-> FALSE, error |-> <<"HTTP ", "status", ": ", "errorText">>]

\* OpenRouterService.testConnection; bodyIsJson: response.json() of an error
\* answer resolves (otherwise it throws into the catch block).
OpenRouter_testConnection(key, o, bodyIsJson) ==
    IF ~Truthy(key) THEN [success |-> FALSE, error |-> <<"API key is required">>]
    ELSE IF ~o.net THEN [success |-> FALSE, error |-> <<"Network request failed">>]
    ELSE IF ~ResponseOk(o.status)
         THEN IF bodyIsJson
              THEN [success |-> FALSE,
                    error |-> <<"API connection failed: ", "status", " - ", "message">>]
              ELSE [success |-> FALSE, error |-> <<"JSON Parse error">>]
    ELSE [success |-> TRUE, error |-> <<>>]

testConnection(s, key, o, bodyIsJson) ==
    CASE s = "fal"        -> Fal_testConnection(key, o)
      [] s = "falLegacy"  -> FalLegacy_testConnection(key, o)
      [] s = "openrouter" -> OpenRouter_testConnection(key, o, bodyIsJson)

\* testConnection(): loadApiKey, the key checks, one fetch, the classification.
TestConnection ==
    LET stored == getSetting(ApiKeySetting(svc))
        key    == KeyAfterLoad(stored, apiKey)
        sends  == TestSendsRequest(svc, key)
    IN
    /\ apiKey' = key
    /\ credentials' = CredentialsAfterLoad(stored, credentials)
    /\ \E o \in Outcomes, bodyIsJson \in BOOLEAN :
         /\ ~sends => o = NetworkFailure /\ bodyIsJson
         /\ sends /\ (svc # "openrouter" \/ ~o.net \/ ResponseOk(o.status)) => bodyIsJson
         /\ LET r == testConnection(svc, key, o, bodyIsJson) IN
            last' = [NoLast EXCEPT
                       !.op = "testConnection",
                       !.success = r.success, !.error = r.error,
                       !.outcome = IF ~sends THEN "none"
                                   ELSE IF o.net THEN "http" ELSE "network-failure",
                       !.status = IF sends THEN o.status ELSE 0,
                       !.probes = IF sends /\ TestRequest(svc) \notin GenerationEndpoints
                                  THEN 1 ELSE 0,
                       !.gens = IF sends /\ TestRequest(svc) \in GenerationEndpoints
                                THEN 1 ELSE 0]
    /\ UNCHANGED <<svc, storeVars, callVars, wfVars, histVars>>

-----------------------------------------------------------------------------
(* Image files and provider responses *)

\* Image references: a file that is not there, one of exactly the size
\* limit, one a byte over it.
ImageRefs == {"file:///missing.jpg", "file:///atlimit.jpg", "file:///toobig.jpg"}

\* const maxSize = 10 * 1024 * 1024
MaxSize == 10 * 1024 * 1024

\* FileSystem.getInfoAsync
FileExists(uri) == uri # "file:///missing.jpg"
FileSize(uri) ==
    CASE uri = "file:///missing.jpg" -> 0
      [] uri = "file:///atlimit.jpg" -> MaxSize
      [] uri = "file:///toobig.jpg"  -> MaxSize + 1

\* validateImage resolves (TRUE) or throws (FALSE).
validateImage(uri) ==
    /\ FileExists(uri)
    /\ ~(FileSize(uri) # 0 /\ FileSize(uri) > MaxSize)

\* The error validateImage throws.
validateImageError(uri) ==
    IF ~FileExists(uri) THEN "Error: Image file does not exist"
    ELSE "Error: Image file is too large (max 10MB)"

Requests == [user : ImageRefs, cloth : ImageRefs]
NoRequest == [user |-> Undefined, cloth |-> Undefined]

\* Pieces a provider answer may carry.
StructuredUrl == "https://cdn.example/structured.jpg"
StructuredB64 == "data:image/png;base64,SSSS"
TextUrl       == "https://cdn.example/text.jpg"
TextB64       == "data:image/png;base64,TTTT"
PlainText     == "Here is the analysis"

\* /https?:\/\/[^\s"]+\.(jpg|jpeg|png|gif|webp|bmp|tiff)/gi
MatchesUrl(t) == t \in {StructuredUrl, TextUrl}
\* /data:image\/[^;]+;base64,([A-Za-z0-9+/=]+)/gi
MatchesBase64(t) == t \in {StructuredB64, TextB64}

\* String.prototype.match with a /g pattern: every match, in order.
MatchUrl(text) == SelectSeq(text, MatchesUrl)
MatchBase64(text) == SelectSeq(text, MatchesBase64)

\* The structured image list of an answer (data.images / message.images):
\* entries by their url, Undefined for an entry without one.
ImageLists == {<<>>, <<StructuredUrl>>, <<StructuredB64>>, <<Undefined>>}

\* The text of an answer (message.content), as its pieces in order.
ContentPieces == {PlainText, TextUrl, TextB64}
Contents == {<<>>} \cup {<<a>> : a \in ContentPieces}
              \cup {<<a, b>> : a \in ContentPieces, b \in {TextUrl, TextB64}}

\* An HTTP 2xx body.
Bodies == [images : ImageLists, content : Contents, imageTokens : BOOLEAN]
NoBody == [images |-> <<>>, content |-> <<>>, imageTokens |-> FALSE]

\* What the generation request gives: a rejection, an error status, a body.
Answers ==
    {[net |-> o.net, status |-> o.status, body |-> NoBody] :
        o \in {x \in Outcomes : ~x.net \/ ~ResponseOk(x.status)}}
    \cup {[net |-> TRUE, status |-> 200, body |-> b] : b \in Bodies}
\* No answer yet.
NoAnswer == [net |-> TRUE, status |-> 0, body |-> NoBody]

\* JSON.stringify(data): the text first, then the other fields.
FullResponseStr(body) == body.content \o SelectSeq(body.images, LAMBDA e : e # Undefined)

Success(url) == [success |-> TRUE, imageUrl |-> url, error |-> <<>>]
Failure(err) == [success |-> FALSE, imageUrl |-> Undefined, error |-> err]
NoResult == [success |-> FALSE, imageUrl |-> Undefined, error |-> <<"(pending)">>]

MockResults == {"https://images.unsplash.com/photo-1515372039744",
                "https://images.unsplash.com/photo-1490725263030"}

\* mockTryOnResponse: fails when Math.random() < 0.1, else a stock photo.
mockTryOnResponse(mockFails, mockPick) ==
    IF mockFails THEN Failure(<<"Mock API error for testing purposes">>)
    ELSE Success(mockPick)

\* FalService.generateStyleMe: what it returns for an answer of fal.run.
Fal_extract(a) ==
    IF ~a.net THEN Failure(<<"Virtual try-on failed: ", "Network request failed">>)
    ELSE IF ~ResponseOk(a.status)
         THEN Failure(<<"Virtual try-on failed: ", "ApiError ", "status">>)
    ELSE IF Len(a.body.images) > 0 THEN Success(a.body.images[1])
    ELSE Failure(<<"No image generated by the model">>)

\* OpenRouterService.generateTryOn: what it returns for an answer of fetch.
OpenRouter_extract(a, mockFails, mockPick) ==
    IF ~a.net THEN Failure(<<"Network request failed">>)
    ELSE IF ~ResponseOk(a.status)
         THEN Failure(<<"API request failed: ", "status", " - ", "message">>)
    ELSE LET content == a.body.content
             full    == FullResponseStr(a.body)
         IN
         IF content # <<>>
         THEN IF MatchUrl(content) # <<>> THEN Success(MatchUrl(content)[1])
              ELSE IF MatchBase64(content) # <<>> THEN Success(MatchBase64(content)[1])
              ELSE IF a.body.imageTokens /\ MatchUrl(full) # <<>>
                   THEN Success(MatchUrl(full)[1])
              ELSE mockTryOnResponse(mockFails, mockPick)
         ELSE IF a.body.imageTokens
              THEN IF MatchUrl(full) # <<>> THEN Success(MatchUrl(full)[1])
                   ELSE mockTryOnResponse(mockFails, mockPick)
         ELSE Failure(<<"No response received from AI model">>)

-----------------------------------------------------------------------------
(* Provider Client: generation *)

\* generateTryOnWithRetry(request, maxRetries = 3, retryDelay = 1000)
DefaultMaxRetries == 3
DefaultRetryDelay == 1000

NoAtCall == [cleared |-> FALSE, stored |-> Undefined, key |-> ""]

\* The messages of the missing-key failures.
FalKeyError == "Fal.ai API key is not configured. Please add your API key in Settings."
OpenRouterKeyError == "OpenRouter API key is not configured. Please add your API key in Settings."

\* A result object that reports a missing key, directly or as the last error
\* of the retry loop.
IsConfigurationError(r) ==
    /\ ~r.success
    /\ \E i \in 1..Len(r.error) : r.error[i] \in {FalKeyError, OpenRouterKeyError}

\* No invocation is under way and nobody is waiting for one.
CallFree == pc \in {"idle", "done"} /\ caller # "workflow"

\* FalService.generateStyleMe up to its first real suspension: loadApiKey,
\* the key check, then convertUriToFile(userImageUri) is started.
Fal_begin ==
    LET stored == getSetting(ApiKeySetting(svc))
        key    == KeyAfterLoad(stored, apiKey)
    IN
    /\ apiKey' = key
    /\ credentials' = CredentialsAfterLoad(stored, credentials)
    /\ attempt' = 1
    /\ IF ~Truthy(key)
       THEN /\ pc' = "done"
            /\ result' = Failure(<<"Virtual try-on failed: ", FalKeyError>>)
       ELSE /\ pc' = "upload-user"
            /\ result' = NoResult

\* A generateStyleMe that submits as soon as one image is uploaded.
AfterUpload_SubmitAtOnce(which) == "await"

\* Where generateStyleMe goes on after an upload has completed: the garment
\* image after the subject image, fal.run after the garment image.
AfterUpload(which) == IF which = "user" THEN "upload-cloth" ELSE "await"

\* One image of generateStyleMe: convertUriToFile (fetch of the file, which
\* rejects when the file is not there), then fal.storage.upload.  After the
\* second upload fal.run is called at once.  Each request goes out with the
\* credentials the shared fal client is configured with at that moment.
Fal_upload(which) ==
    LET uri == IF which = "user" THEN request.user ELSE request.cloth IN
    /\ pc = (IF which = "user" THEN "upload-user" ELSE "upload-cloth")
    /\ IsFal(svc)
    /\ IF ~FileExists(uri)
       THEN /\ pc' = "done"
            /\ result' = Failure(<<"Virtual try-on failed: ", "Network request failed">>)
            /\ UNCHANGED <<nUploads, nGen>>
       ELSE /\ nUploads' = nUploads + 1
            /\ \E uploaded \in BOOLEAN :
                 IF ~uploaded
                 THEN /\ pc' = "done"
                      /\ result' = Failure(<<"Virtual try-on failed: ", "upload failed">>)
                      /\ nGen' = nGen
                 ELSE /\ result' = NoResult
                      /\ pc' = AfterUpload(which)
                      /\ nGen' = IF AfterUpload(which) = "await" THEN nGen + 1 ELSE nGen
    /\ UNCHANGED <<caller, request, maxRetries, attempt, response, atCall>>
    /\ UNCHANGED <<storeVars, clientVars, wfVars, histVars>>
    /\ last' = NoLast

\* fal.run settles: the result object of generateStyleMe.
Fal_response(As) ==
    /\ pc = "await"
    /\ IsFal(svc)
    /\ \E a \in As :
         /\ response' = a
         /\ result' = Fal_extract(a)
    /\ pc' = "done"
    /\ UNCHANGED <<caller, request, maxRetries, attempt, nUploads, nGen, atCall>>
    /\ UNCHANGED <<storeVars, clientVars, wfVars, histVars>>
    /\ last' = NoLast

\* A wait of the same length before every retry.
BackoffDelay_Flat(a) == DefaultRetryDelay

\* const delay = retryDelay * Math.pow(2, attempt - 1)
BackoffDelay(a) == DefaultRetryDelay * 2^(a - 1)

\* What the step leaves for its caller to see: the timer it has set when it
\* ends in the wait between two attempts.
TimerSet ==
    IF pc' = "backoff"
    THEN [NoLast EXCEPT !.op = "setTimeout", !.delay = BackoffDelay(attempt')]
    ELSE NoLast

\* A retry loop that goes round once more than maxRetries allows.
OpenRouter_afterAttempt_OneMore(a, r, mr) ==
    IF r.success THEN pc' = "done" /\ result' = r
    ELSE IF a < mr + 1 THEN pc' = "backoff" /\ result' = NoResult
    ELSE /\ pc' = "done"
         /\ result' = Failure(<<"Failed after ", "maxRetries", " attempts. Last error: ">>
                              \o r.error)

\* generateTryOnWithRetry after attempt a of generateTryOn has returned r:
\* return a success, wait and go round again, or give up.
OpenRouter_afterAttempt(a, r, mr) ==
    IF r.success THEN pc' = "done" /\ result' = r
    ELSE IF a < mr THEN pc' = "backoff" /\ result' = NoResult
    ELSE /\ pc' = "done"
         /\ result' = Failure(<<"Failed after ", "maxRetries", " attempts. Last error: ">>
                              \o r.error)

\* Attempt a of the loop, up to the first real suspension of generateTryOn:
\* loadApiKey and the key check, then the two validateImage calls are started.
OpenRouter_beginAttempt(a, mr) ==
    LET stored == getSetting(ApiKeySetting(svc))
        key    == KeyAfterLoad(stored, apiKey)
    IN
    /\ apiKey' = key
    /\ credentials' = credentials
    /\ attempt' = a
    /\ IF ~Truthy(key)
       THEN OpenRouter_afterAttempt(a, Failure(<<OpenRouterKeyError>>), mr)
       ELSE pc' = "validate" /\ result' = NoResult

\* generateTryOnWithRetry: the loop does not run at all for maxRetries < 1.
OpenRouter_begin(mr) ==
    IF mr < 1
    THEN /\ pc' = "done"
         /\ result' = Failure(<<"Failed after ", "maxRetries", " attempts. Last error: ", Undefined>>)
         /\ attempt' = 0
         /\ UNCHANGED <<apiKey, credentials>>
    ELSE OpenRouter_beginAttempt(1, mr)

\* The two validateImage calls settle; on success the images are read as
\* base64 and the chat/completions request is sent.
OpenRouter_validate ==
    /\ pc = "validate"
    /\ svc = "openrouter"
    /\ IF validateImage(request.user) /\ validateImage(request.cloth)
       THEN /\ pc' = "await"
            /\ nGen' = nGen + 1
            /\ result' = NoResult
       ELSE /\ OpenRouter_afterAttempt(attempt,
                   Failure(<<"Image validation failed: ",
                             IF ~validateImage(request.user)
                             THEN validateImageError(request.user)
                             ELSE validateImageError(request.cloth)>>),
                   maxRetries)
            /\ nGen' = nGen
    /\ UNCHANGED <<caller, request, maxRetries, attempt, nUploads, response, atCall>>
    /\ UNCHANGED <<storeVars, clientVars, wfVars, histVars>>
    /\ last' = TimerSet

\* The chat/completions request settles.
OpenRouter_response(As) ==
    /\ pc = "await"
    /\ svc = "openrouter"
    /\ \E a \in As, mockFails \in BOOLEAN, mockPick \in MockResults :
         /\ response' = a
         /\ OpenRouter_afterAttempt(attempt, OpenRouter_extract(a, mockFails, mockPick),
                                    maxRetries)
    /\ UNCHANGED <<caller, request, maxRetries, attempt, nUploads, nGen, atCall>>
    /\ UNCHANGED <<storeVars, clientVars, wfVars, histVars>>
    /\ last' = TimerSet

\* The backoff delay has passed: the next attempt.
OpenRouter_backoff ==
    /\ pc = "backoff"
    /\ svc = "openrouter"
    /\ OpenRouter_beginAttempt(attempt + 1, maxRetries)
    /\ UNCHANGED <<caller, request, maxRetries, nUploads, nGen, response, atCall>>
    /\ UNCHANGED <<svc, storeVars, wfVars, histVars>>
    /\ last' = TimerSet

\* generateStyleMeWithRetry(req) / generateTryOnWithRetry(req, mr) is called.
BeginGenerate(who, req, mr) ==
    /\ caller' = who
    /\ request' = req
    /\ maxRetries' = mr
    /\ nUploads' = 0
    /\ nGen' = 0
    /\ response' = NoAnswer
    /\ atCall' = [cleared |-> cleared, stored |-> settings[ApiKeySetting(svc)],
                  key |-> KeyAfterLoad(getSetting(ApiKeySetting(svc)), apiKey)]
    /\ IF IsFal(svc) THEN Fal_begin ELSE OpenRouter_begin(mr)
    /\ UNCHANGED svc

\* A caller other than the processing screen starts a generation.
Generate(Reqs, MRs) ==
    /\ CallFree
    /\ \E req \in Reqs, mr \in MRs : BeginGenerate("direct", req, mr)
    /\ UNCHANGED <<storeVars, wfVars, histVars>>
    /\ last' = TimerSet

-----------------------------------------------------------------------------
(* Processing screen: app/processing.tsx (FalService) and its earlier       *)
(* revision (OpenRouterService)                                             *)

\* What the screen shows, read off its state and its last alert:
\*   MissingKey    - showApiKeyModal
\*   MissingImages - the 'Missing Images' alert
\*   Submitting    - the client's generation call is awaited
\*   Succeeded     - router.push('/result')
\*   Failed        - the 'Error' / 'Generation Failed' alert
WorkflowStates == {"Idle", "MissingKey", "MissingImages", "Submitting", "Succeeded", "Failed"}

\* disabled={!userImage || !outfitImage || isProcessing}
ButtonDisabled == ~Truthy(userImage) \/ ~Truthy(outfitImage) \/ isProcessing

\* A handler that leaves the processing flag set.
ProcessingAfterHandler_Kept == TRUE

\* finally { setIsProcessing(false) }
ProcessingAfterHandler == FALSE

\* The screen is opened with its route parameters.
OpenScreen(Imgs) ==
    /\ ~isProcessing
    /\ keyChecks = 0
    /\ calls = 0
    /\ \E u \in Imgs, o \in Imgs :
         /\ userImage' = u
         /\ outfitImage' = o
    /\ wfState' = "Idle"
    /\ active' = TRUE
    /\ UNCHANGED <<isProcessing, keyChecks, calls>>
    /\ UNCHANGED <<storeVars, clientVars, callVars, histVars>>
    /\ last' = NoLast

\* generateStyleMe of processing.tsx, from the press of the button to the
\* first real suspension inside the client.
Screen_generateStyleMe ==
    LET stored == getSetting(ApiKeySetting(svc))
        hasApiKey == KeyAfterLoad(stored, apiKey)
    IN
    /\ IsFal(svc)
    /\ ~ButtonDisabled
    /\ CallFree
    /\ Len(galleryItems) < MaxGallery
    /\ IF ~Truthy(hasApiKey)
       THEN /\ wfState' = "MissingKey"
            /\ apiKey' = hasApiKey
            /\ credentials' = CredentialsAfterLoad(stored, credentials)
            /\ UNCHANGED <<svc, isProcessing, callVars>>
       ELSE IF ~Truthy(userImage) \/ ~Truthy(outfitImage)
       THEN /\ wfState' = "MissingImages"
            /\ apiKey' = hasApiKey
            /\ credentials' = CredentialsAfterLoad(stored, credentials)
            /\ UNCHANGED <<svc, isProcessing, callVars>>
       ELSE /\ wfState' = "Submitting"
            /\ isProcessing' = TRUE
            /\ BeginGenerate("workflow", [user |-> userImage, cloth |-> outfitImage], 0)
    /\ UNCHANGED <<userImage, outfitImage, active, keyChecks, calls>>
    /\ UNCHANGED <<storeVars, histVars>>
    /\ last' = NoLast

\* generateTryOn of the earlier processing screen.
Screen_generateTryOn ==
    /\ svc = "openrouter"
    /\ ~ButtonDisabled
    /\ CallFree
    /\ Len(galleryItems) < MaxGallery
    /\ IF ~Truthy(userImage) \/ ~Truthy(outfitImage)
       THEN /\ wfState' = "MissingImages"
            /\ UNCHANGED <<clientVars, isProcessing, callVars>>
       ELSE /\ wfState' = "Submitting"
            /\ isProcessing' = TRUE
            /\ BeginGenerate("workflow", [user |-> userImage, cloth |-> outfitImage],
                             DefaultMaxRetries)
    /\ UNCHANGED <<userImage, outfitImage, active, keyChecks, calls>>
    /\ UNCHANGED <<storeVars, histVars>>
    /\ last' = TimerSet

\* The awaited call has returned: the rest of the handler.  saveToGallery
\* never rejects (saveGallery swallows the storage failure).
Screen_complete(Rs) ==
    /\ pc = "done"
    /\ caller = "workflow"
    /\ IF result.success /\ Truthy(result.imageUrl)
       THEN /\ \E t \in now..MaxNow, r \in Rs, ok \in BOOLEAN :
                 /\ galleryItems' = GalleryAfterSave(result.imageUrl, "result", t, r)
                 /\ now' = t
                 /\ saveGallery(ok)
            /\ wfState' = "Succeeded"
       ELSE /\ wfState' = "Failed"
            /\ UNCHANGED <<galleryItems, diskGallery, now>>
    /\ isProcessing' = ProcessingAfterHandler
    /\ caller' = "none"
    /\ UNCHANGED <<settings, userProfile, diskSettings, diskProfile, loadState, loadSnap, pending>>
    /\ UNCHANGED <<pc, request, maxRetries, attempt, nUploads, nGen, response, result, atCall>>
    /\ UNCHANGED <<userImage, outfitImage, active, keyChecks, calls, clientVars, histVars>>
    /\ last' = NoLast

-----------------------------------------------------------------------------
(* Processing screen: several runs of the handler at once.  The client call *)
(* of a run is followed only as being in flight.                            *)

\* The generate button is pressed.  processing.tsx: the run is suspended at
\* `await falService.getApiKeyFromStorage()` with isProcessing still false.
\* The earlier screen runs on to setIsProcessing(true) and the client call.
Screen_press ==
    /\ active
    /\ ~ButtonDisabled
    /\ keyChecks + calls < MaxTaps
    /\ Len(galleryItems) + keyChecks + calls < MaxGallery
    /\ IF IsFal(svc)
       THEN /\ keyChecks' = keyChecks + 1
            /\ UNCHANGED <<isProcessing, wfState, calls>>
       ELSE /\ isProcessing' = TRUE
            /\ wfState' = "Submitting"
            /\ calls' = calls + 1
            /\ UNCHANGED keyChecks
    /\ UNCHANGED <<userImage, outfitImage, active>>
    /\ UNCHANGED <<storeVars, clientVars, callVars, histVars>>
    /\ last' = NoLast

\* A suspended run resumes with the key: the two checks, setIsProcessing(true)
\* and the client call.
Screen_keyChecked ==
    LET stored == getSetting(ApiKeySetting(svc))
        hasApiKey == KeyAfterLoad(stored, apiKey)
    IN
    /\ keyChecks > 0
    /\ keyChecks' = keyChecks - 1
    /\ apiKey' = hasApiKey
    /\ credentials' = CredentialsAfterLoad(stored, credentials)
    /\ IF ~Truthy(hasApiKey)
       THEN /\ wfState' = "MissingKey"
            /\ UNCHANGED <<isProcessing, calls>>
       ELSE IF ~Truthy(userImage) \/ ~Truthy(outfitImage)
       THEN /\ wfState' = "MissingImages"
            /\ UNCHANGED <<isProcessing, calls>>
       ELSE /\ wfState' = "Submitting"
            /\ isProcessing' = TRUE
            /\ calls' = calls + 1
    /\ UNCHANGED <<svc, userImage, outfitImage, active>>
    /\ UNCHANGED <<storeVars, callVars, histVars>>
    /\ last' = NoLast

\* What a client call in flight may return.
ReturnedResults ==
    {Success(StructuredUrl), Failure(<<"Virtual try-on failed: ", "Network request failed">>)}

\* A client call in flight returns: the rest of its run, as in
\* Screen_complete, whether or not the screen is still the one shown.
Screen_returned(Rs) ==
    /\ calls > 0
    /\ calls' = calls - 1
    /\ \E res \in ReturnedResults :
         IF res.success /\ Truthy(res.imageUrl)
         THEN /\ \E t \in now..MaxNow, r \in Rs, ok \in BOOLEAN :
                   /\ galleryItems' = GalleryAfterSave(res.imageUrl, "result", t, r)
                   /\ now' = t
                   /\ saveGallery(ok)
              /\ wfState' = "Succeeded"
         ELSE /\ wfState' = "Failed"
              /\ UNCHANGED <<galleryItems, diskGallery, now>>
    /\ isProcessing' = ProcessingAfterHandler
    /\ UNCHANGED <<settings, userProfile, diskSettings, diskProfile, loadState, loadSnap, pending>>
    /\ UNCHANGED <<userImage, outfitImage, active, keyChecks>>
    /\ UNCHANGED <<clientVars, callVars, histVars>>
    /\ last' = NoLast

\* The back button: router.back() leaves the screen; runs of its handler
\* that are under way go on.
Screen_back ==
    /\ active
    /\ active' = FALSE
    /\ wfState' = "Idle"
    /\ UNCHANGED <<userImage, outfitImage, isProcessing, keyChecks, calls>>
    /\ UNCHANGED <<storeVars, clientVars, callVars, histVars>>
    /\ last' = NoLast

-----------------------------------------------------------------------------
(* Result screen (app/result.tsx) and gallery tab (app/(tabs)/gallery.tsx) *)

\* The result items of a gallery list.
ResultItems(g) == SelectSeq(g, LAMBDA x : x.type = "result")

\* saveImage on the result screen, which shows a result of the gallery or the
\* one just generated: permission, download and media-library steps either
\* all succeed (saved) or one of them ends the handler; on success the image
\* is also given to saveToGallery(imageUri, 'result').
Result_saveImage(Rs) ==
    /\ Len(galleryItems) < MaxItems
    /\ \E i \in 1..Len(galleryItems) :
         /\ galleryItems[i].type = "result"
         /\ \E saved \in BOOLEAN :
              IF saved
              THEN \E t \in now..MaxNow, r \in Rs, ok \in BOOLEAN :
                      /\ galleryItems' = GalleryAfterSave(galleryItems[i].uri, "result", t, r)
                      /\ now' = t
                      /\ saveGallery(ok)
              ELSE UNCHANGED <<galleryItems, diskGallery, now>>
    /\ UNCHANGED <<settings, userProfile, diskSettings, diskProfile, loadState, loadSnap, pending>>
    /\ UNCHANGED <<clientVars, callVars, wfVars, histVars>>
    /\ last' = NoLast

\* The demo items loadGalleryData stores when the gallery is empty.
MockItems ==
    << [uri |-> "https://images.unsplash.com/photo-1441986300917", type |-> "user"],
       [uri |-> "https://images.unsplash.com/photo-1515886657613", type |-> "outfit"],
       [uri |-> "https://images.unsplash.com/photo-1529374255404", type |-> "result"],
       [uri |-> "https://images.unsplash.com/photo-1494790108755", type |-> "user"],
       [uri |-> "https://images.unsplash.com/photo-1434389677669", type |-> "outfit"],
       [uri |-> "https://images.unsplash.com/photo-1551698618", type |-> "result"] >>

\* loadGalleryData, run when the gallery tab mounts: an empty gallery gets
\* the demo items, one saveGalleryItem after the other; each flush may fail,
\* so the file ends as it was or with the list as some save left it.
Gallery_loadGalleryData(Rs) ==
    /\ IF galleryItems = <<>>
       THEN \E t \in now..MaxNow, r \in Rs, flushed \in 0..Len(MockItems) :
               /\ galleryItems' =
                     [i \in 1..Len(MockItems) |->
                        [id |-> <<t, r>>, uri |-> MockItems[i].uri,
                         type |-> MockItems[i].type, timestamp |-> t]]
               /\ now' = t
               /\ diskGallery' = IF flushed = 0 THEN diskGallery
                                 ELSE StringifyGallery(SubSeq(galleryItems', 1, flushed))
       ELSE UNCHANGED <<galleryItems, diskGallery, now>>
    /\ UNCHANGED <<settings, userProfile, diskSettings, diskProfile, loadState, loadSnap, pending>>
    /\ UNCHANGED <<clientVars, callVars, wfVars, histVars>>
    /\ last' = NoLast

-----------------------------------------------------------------------------
(* The process *)

\* The app is killed and started again: memory is gone, durable storage
\* stays, and importing services/storage.ts starts initialize() un-awaited.
Restart ==
    /\ settings' = EmptySettings
    /\ galleryItems' = <<>>
    /\ userProfile' = NoProfile
    /\ loadState' = "reading"
    /\ loadSnap' = NoSnap
    /\ pending' = <<>>
    /\ apiKey' = ""
    /\ credentials' = ""
    /\ pc' = "idle"
    /\ caller' = "none"
    /\ request' = NoRequest
    /\ maxRetries' = 0
    /\ attempt' = 0
    /\ nUploads' = 0
    /\ nGen' = 0
    /\ response' = NoAnswer
    /\ result' = NoResult
    /\ atCall' = NoAtCall
    /\ last' = NoLast
    /\ userImage' = Null
    /\ outfitImage' = Null
    /\ isProcessing' = FALSE
    /\ wfState' = "Idle"
    /\ active' = FALSE
    /\ keyChecks' = 0
    /\ calls' = 0
    /\ lastProfile' = NoProfile
    /\ UNCHANGED <<svc, diskSettings, diskGallery, diskProfile, now, lastSet, cleared, written>>

\* A first start on an empty device.
Init ==
    /\ svc \in Services
    /\ settings = EmptySettings
    /\ galleryItems = <<>>
    /\ userProfile = NoProfile
    /\ diskSettings = NoItem
    /\ diskGallery = NoGalleryItem
    /\ diskProfile = NoProfileItem
    /\ loadState = "reading"
    /\ loadSnap = NoSnap
    /\ pending = <<>>
    /\ now = 0
    /\ apiKey = ""
    /\ credentials = ""
    /\ pc = "idle"
    /\ caller = "none"
    /\ request = NoRequest
    /\ maxRetries = 0
    /\ attempt = 0
    /\ nUploads = 0
    /\ nGen = 0
    /\ response = NoAnswer
    /\ result = NoResult
    /\ atCall = NoAtCall
    /\ last = NoLast
    /\ userImage = Null
    /\ outfitImage = Null
    /\ isProcessing = FALSE
    /\ wfState = "Idle"
    /\ active = FALSE
    /\ keyChecks = 0
    /\ calls = 0
    /\ lastSet = NoKeySet
    /\ cleared = FALSE
    /\ written = NothingWritten
    /\ lastProfile = NoProfile

-----------------------------------------------------------------------------
(* Specifications *)

ValidRequest == [user |-> "file:///atlimit.jpg", cloth |-> "file:///atlimit.jpg"]

\* A rejection, each error status, a 2xx answer without an image, one with a
\* structured image entry and one with an image URL in its text.
FewAnswers ==
    {a \in Answers :
        ~a.net \/ a.body \in {NoBody, [NoBody EXCEPT !.images = <<StructuredUrl>>],
                               [NoBody EXCEPT !.content = <<TextUrl>>]}}

\* A rejection and a 2xx answer with a structured image entry.
TwoAnswers == {a \in FewAnswers : ~a.net \/ (ResponseOk(a.status) /\ a.body # NoBody)}

\* Key lifecycle, connection test and generation with valid images, across
\* restarts and store operations.
Next ==
    \/ LoadRead
    \/ LoadApply
    \/ DeleteSetting
    \/ ClearAllData
    \/ \E k \in Keys : SetApiKey(k)
    \/ ClearApiKey
    \/ GetApiKeyFromStorage
    \/ TestConnection
    \/ Generate({ValidRequest}, {1})
    \/ Fal_upload("user")
    \/ Fal_upload("cloth")
    \/ Fal_response(TwoAnswers)
    \/ OpenRouter_validate
    \/ OpenRouter_response(TwoAnswers)
    \/ Restart

Spec == Init /\ [][Next]_vars

\* Generation called directly with every image pair and retry argument.
NextGenerate ==
    \/ LoadRead
    \/ LoadApply
    \/ SetApiKey("k1")
    \/ ClearApiKey
    \/ Generate(Requests, 0..MaxRetryArg)
    \/ Fal_upload("user")
    \/ Fal_upload("cloth")
    \/ Fal_response(FewAnswers)
    \/ OpenRouter_validate
    \/ OpenRouter_response(FewAnswers)
    \/ OpenRouter_backoff

SpecGenerate == Init /\ [][NextGenerate]_vars

\* Generation with valid images against every provider answer.
NextParse ==
    \/ LoadRead
    \/ LoadApply
    \/ SetApiKey("k1")
    \/ Generate({ValidRequest}, {1, 2})
    \/ Fal_upload("user")
    \/ Fal_upload("cloth")
    \/ Fal_response(Answers)
    \/ OpenRouter_validate
    \/ OpenRouter_response(Answers)
    \/ OpenRouter_backoff

SpecParse == Init /\ [][NextParse]_vars

\* The processing screens driving the clients.
NextScreen ==
    \/ LoadRead
    \/ LoadApply
    \/ SetApiKey("k1")
    \/ ClearApiKey
    \/ OpenScreen({Null, "file:///atlimit.jpg"})
    \/ Screen_generateStyleMe
    \/ Screen_generateTryOn
    \/ Screen_complete({"a"})
    \/ Fal_upload("user")
    \/ Fal_upload("cloth")
    \/ Fal_response(FewAnswers)
    \/ OpenRouter_validate
    \/ OpenRouter_response(FewAnswers)
    \/ OpenRouter_backoff

SpecScreen == Init /\ [][NextScreen]_vars

\* The processing screens under repeated presses and the back button.
NextTaps ==
    \/ LoadRead
    \/ LoadApply
    \/ SetApiKey("k1")
    \/ ClearApiKey
    \/ OpenScreen({Null, "file:///atlimit.jpg"})
    \/ Screen_press
    \/ Screen_keyChecked
    \/ Screen_returned({"a"})
    \/ Screen_back

SpecTaps == Init /\ [][NextTaps]_vars

\* One screen driving its client, with the steps the app itself schedules
\* taken eventually: the file checks, the backoff timer and the rest of the
\* handler once the call has returned.  The uploads and the generation
\* request settle when the provider answers, if it does.
NextLive ==
    \/ SetApiKey("k1")
    \/ OpenScreen({Null, "file:///atlimit.jpg"})
    \/ Screen_generateStyleMe
    \/ Screen_generateTryOn
    \/ Screen_complete({"a"})
    \/ Fal_upload("user")
    \/ Fal_upload("cloth")
    \/ Fal_response(TwoAnswers)
    \/ OpenRouter_validate
    \/ OpenRouter_response(TwoAnswers)
    \/ OpenRouter_backoff

SpecLive ==
    /\ Init
    /\ [][NextLive]_vars
    /\ WF_vars(Screen_complete({"a"}))
    /\ WF_vars(OpenRouter_validate)
    /\ WF_vars(OpenRouter_backoff)

\* The gallery operations of the store, with one setting and one profile
\* written beside them.
NextGallery ==
    \/ SaveGalleryItem(GalleryTypes, {"a"})
    \/ DeleteGalleryItem
    \/ ClearCache
    \/ SetSetting("dark_mode", True)
    \/ SetUserProfile(CHOOSE p \in Profiles : p.profileImage # Undefined)

SpecGallery == Init /\ [][NextGallery]_vars

\* The settings and the profile of the store across loads and restarts.
NextStore ==
    \/ LoadRead
    \/ LoadApply
    \/ \E v \in SettingValues : SetSetting("dark_mode", v)
    \/ DeleteStoredSetting("dark_mode")
    \/ GetSetting("dark_mode")
    \/ \E p \in Profiles : SetUserProfile(p)
    \/ GetUserProfile
    \/ ClearAllData
    \/ Restart

SpecStore == Init /\ [][NextStore]_vars

\* The screens that write to the gallery: a generation on the processing
\* screen, saveImage on the result screen, the gallery tab, and clearCache.
NextApp ==
    \/ SetApiKey("k1")
    \/ OpenScreen({"file:///atlimit.jpg"})
    \/ Screen_generateStyleMe
    \/ Fal_upload("user")
    \/ Fal_upload("cloth")
    \/ Fal_response(FewAnswers)
    \/ Screen_complete({"a"})
    \/ Result_saveImage({"a"})
    \/ Gallery_loadGalleryData({"a"})
    \/ ClearCache

SpecApp == Init /\ [][NextApp]_vars

\* The store's writing operations with AsyncStorage failing at will, and no
\* load.
NextVolatile ==
    \/ SetSetting("dark_mode", False)
    \/ DeleteStoredSetting("dark_mode")
    \/ \E p \in Profiles : SetUserProfile(p)
    \/ SaveGalleryItem({"result"}, {"a"})
    \/ ClearCache
    \/ ClearAllData

SpecVolatile == Init /\ [][NextVolatile]_vars

\* A start on a device that holds what an earlier run stored, with writes
\* made while the initial load is in flight.
NextStartup ==
    \/ SetApiKey("k1")
    \/ SetSetting("dark_mode", True)
    \/ SaveGalleryItem({"result"}, {"a"})
    \/ LoadRead
    \/ LoadApply
    \/ Restart

SpecStartup == Init /\ [][NextStartup]_vars

\* Starts on a device whose stored items may be damaged.
NextCorrupt ==
    \/ SetSetting("dark_mode", True)
    \/ SaveGalleryItem({"result"}, {"a"})
    \/ SetUserProfile(CHOOSE p \in Profiles : p.profileImage # Undefined)
    \/ CorruptBlob
    \/ LoadRead
    \/ LoadApply
    \/ Restart

SpecCorrupt == Init /\ [][NextCorrupt]_vars

\* saveGalleryItem calls that overlap.
NextOverlap ==
    \/ SaveGalleryItem_issue(GalleryTypes, RandomSuffixes)
    \/ SaveGalleryItem_flushed

SpecOverlap == Init /\ [][NextOverlap]_vars

\* Saved results and their ids, for every suffix Math.random may give.
NextIds ==
    \/ SaveGalleryItem({"result"}, RandomSuffixes)
    \/ DeleteGalleryItem
    \/ ClearCache

SpecIds == Init /\ [][NextIds]_vars

-----------------------------------------------------------------------------
(* Properties *)

\* A generation request was answered with HTTP success.
AnsweredOk == pc = "done" /\ response.net /\ ResponseOk(response.status)

C2_GetReturnsSetKey ==
    (/\ last.op = "getApiKeyFromStorage"
     /\ lastSet # NoKeySet
     /\ DurableKey = lastSet)
    => last.ret = lastSet

\* C3: getApiKeyFromStorage and testConnection leave the client's key equal
\* to the store's key setting (empty when the setting is absent), and a
\* generation called with the setting absent fails for missing configuration.
C3_KeyResynchronised ==
    /\ last.op # "none" => apiKey = (IF Truthy(StoredKey) THEN StoredKey ELSE "")
    /\ (last.op = "testConnection" /\ ~Truthy(StoredKey)) =>
           ~last.success /\ last.outcome = "none"
    /\ (pc # "idle" /\ ~Truthy(atCall.stored)) =>
           pc = "done" /\ IsConfigurationError(result)

\* C4: a generation called after clearApiKey completed (and no key was set
\* since) returns a missing-configuration failure and dispatches no upload
\* and no generation request.
C4_ClearedKeyFailsGenerate ==
    (pc # "idle" /\ atCall.cleared) =>
        /\ pc = "done"
        /\ IsConfigurationError(result)
        /\ nUploads = 0
        /\ nGen = 0

\* C5: the screen is in Submitting, or past it, only when both images and the
\* key setting were present at the press; in MissingImages and MissingKey no
\* call of the client is under way.
C5_SubmittingOnlyWhenReady ==
    /\ wfState \in {"Submitting", "Succeeded", "Failed"} =>
         /\ Truthy(userImage)
         /\ Truthy(outfitImage)
         /\ Truthy(atCall.stored)
    /\ wfState \in {"MissingImages", "MissingKey"} => pc \in {"idle", "done"}

\* C6: testConnection sends no request to a generation endpoint, and a
\* credential the provider rejects (401) is never reported as connected.
C6_TestConnectionNeverGenerates ==
    last.op = "testConnection" =>
        /\ last.gens = 0
        /\ (last.outcome = "http" /\ last.status = 401) => ~last.success

C8_NoImageIsFailure ==
    AnsweredOk =>
        LET b == response.body
            inAnswer == {b.images[i] : i \in 1..Len(b.images)}
                          \cup {b.content[i] : i \in 1..Len(b.content)}
            extractable == {x \in inAnswer : MatchesUrl(x) \/ MatchesBase64(x)}
        IN /\ extractable = {} => ~result.success
           /\ result.success => result.imageUrl \in extractable

\* C9: the result carries the image of the highest-priority shape the answer
\* holds: the structured image entry, else the first URL in the text, else
\* the first base64 image in the text.
C9_ParserPriority ==
    AnsweredOk =>
        LET b == response.body
            structured == SelectSeq(b.images, LAMBDA e : e # Undefined)
        IN IF structured # <<>> THEN result = Success(structured[1])
           ELSE IF MatchUrl(b.content) # <<>> THEN result = Success(MatchUrl(b.content)[1])
           ELSE IF MatchBase64(b.content) # <<>>
                THEN result = Success(MatchBase64(b.content)[1])
           ELSE TRUE

\* C10: an invocation given a missing or oversized image dispatches no upload
\* and no generation request, and ends in a failure.
C10_ValidatedBeforeNetwork ==
    (/\ pc # "idle"
     /\ ~(validateImage(request.user) /\ validateImage(request.cloth)))
    => /\ nUploads = 0
       /\ nGen = 0
       /\ pc = "done" => ~result.success

\* C11: a generation call that has returned carries either success = true
\* with an image reference, or success = false with a non-empty error text.
C11_ResultObject ==
    pc = "done" =>
        /\ result.success => Truthy(result.imageUrl)
        /\ ~result.success => (result.error # <<>> /\ result.imageUrl = Undefined)

\* C12: when the awaited generation returned a success with an image
\* reference, the handler's completion appends exactly one gallery item, of
\* type 'result' and with that reference as uri, and shows Succeeded -
\* whether or not the gallery write reached durable storage.
C12_ResultSaved ==
    [][(/\ caller = "workflow"
        /\ caller' = "none"
        /\ wfState' \in {"Succeeded", "Failed"}
        /\ result.success
        /\ Truthy(result.imageUrl))
       => /\ Len(galleryItems') = Len(galleryItems) + 1
          /\ SubSeq(galleryItems', 1, Len(galleryItems)) = galleryItems
          /\ galleryItems'[Len(galleryItems')].type = "result"
          /\ galleryItems'[Len(galleryItems')].uri = result.imageUrl
          /\ wfState' = "Succeeded"]_vars

\* C12, case reached: Succeeded is shown with the item in the list although
\* nothing was ever written to the durable gallery.
C12_Witness ==
    /\ wfState = "Succeeded"
    /\ caller = "none"
    /\ Len(galleryItems) = 1
    /\ galleryItems[1].uri = result.imageUrl
    /\ ~diskGallery.has

\* C13: at most one generation call of the screen is in flight.
C13_OneCallInFlight ==
    calls + (IF caller = "workflow" /\ pc \notin {"idle", "done"} THEN 1 ELSE 0) <= 1

\* C15: a screen that was left shows no outcome of a generation: neither the
\* navigation to the result (Succeeded) nor the error alert (Failed).
C15_LeftScreenUntouched ==
    ~active => wfState \notin {"Succeeded", "Failed"}

\* C14: every attempt that enters Submitting reaches Succeeded or Failed.
C14_SubmittingEnds ==
    (wfState = "Submitting") ~> (wfState \in {"Succeeded", "Failed"})


\* C16: clearCache removes every gallery item of type 'result' and nothing
\* else: the 'user' and 'outfit' items stay, unchanged and in their order,
\* and every setting and the user profile are unchanged.
C16_ClearCacheFrame ==
    [][last'.op = "clearCache"
        => /\ \A i \in 1..Len(galleryItems') : galleryItems'[i].type # "result"
           /\ galleryItems' = SelectSeq(galleryItems, LAMBDA x : x.type \in {"user", "outfit"})
           /\ settings' = settings
           /\ userProfile' = userProfile]_vars

\* clearCache has removed a result item from between a user item and an
\* outfit item, beside
\* a stored setting and a stored profile (the file still holds the old list).
C16_Witness ==
    /\ last.op = "clearCache"
    /\ Len(galleryItems) = 2
    /\ galleryItems[1].type = "user"
    /\ galleryItems[2].type = "outfit"
    /\ diskGallery.has
    /\ Len(ParseGallery(diskGallery)) = 3
    /\ ParseGallery(diskGallery)[1] = galleryItems[1]
    /\ ParseGallery(diskGallery)[2].type = "result"
    /\ ParseGallery(diskGallery)[3] = galleryItems[2]
    /\ settings["dark_mode"] = True
    /\ userProfile \in Profiles

\* C17: no two items of the gallery list have the same id, whatever
\* saveGalleryItem calls were made, also two in one millisecond, and whatever
\* suffix Math.random gave.
C17_UniqueIds ==
    \A i \in 1..Len(galleryItems), j \in 1..Len(galleryItems) :
        i # j => galleryItems[i].id # galleryItems[j].id

\* C18: getUserProfile returns the profile given to the last setUserProfile
\* of this run, whole: after setUserProfile(p2) nothing of an earlier p is
\* left (no profileImage when p2 has none).
C18_ProfileRoundTrip ==
    (last.op = "getUserProfile" /\ lastProfile # NoProfile) => last.profile = lastProfile

\* C19: getSetting(key) returns the value the store holds under the key, also
\* when that value is false, 0 or the empty string, and the not-present
\* sentinel only when the store holds nothing under the key (never written,
\* or deleted since).
C19_GetSettingReturnsStored ==
    last.op = "getSetting"
        => last.ret = IF settings[last.key] = Undefined THEN Null ELSE settings[last.key]

\* C20: once the initial load has completed, the store holds every value
\* whose awaited write completed, also a write made while the load was in
\* flight: each setting whose last written value durable storage holds, and
\* the profile given to the last setUserProfile of this run.
C20_WriteSurvivesLoad ==
    loadState = "done"
        => /\ \A k \in SettingKeys :
                (/\ written[k] # NotWritten
                 /\ diskSettings.has
                 /\ ParseSettings(diskSettings)[k] = written[k])
                    => settings[k] = written[k]
           /\ lastProfile # NoProfile => userProfile = lastProfile

\* C21: the 'result' items of the gallery are exactly the images of
\* successful generations: a step adds result items only when it is a
\* generation completing with success, which adds exactly one, holding the
\* image it returned; saving a result or opening the gallery adds none.
C21_ResultsOnlyFromGeneration ==
    [][Len(ResultItems(galleryItems')) > Len(ResultItems(galleryItems))
        => /\ caller = "workflow"
           /\ caller' = "none"
           /\ result.success
           /\ ResultItems(galleryItems') =
                 Append(ResultItems(galleryItems),
                        galleryItems'[Len(galleryItems')])
           /\ galleryItems'[Len(galleryItems')].uri = result.imageUrl]_vars

C23_VolatileStore ==
    /\ ~last.raised
    /\ \A k \in SettingKeys : written[k] # NotWritten => settings[k] = written[k]
    /\ lastProfile # NoProfile => userProfile = lastProfile
    /\ last.op = "saveGalleryItem"
          => (galleryItems # <<>> /\ galleryItems[Len(galleryItems)].id = last.ret)
    /\ last.op = "clearCache" => ResultItems(galleryItems) = <<>>
    /\ last.op = "clearAllData"
          => (settings = EmptySettings /\ galleryItems = <<>> /\ userProfile = NoProfile)

\* Every flush so far was rejected, and the store holds a setting, a profile
\* and the item just saved.
C23_Witness ==
    /\ last.op = "saveGalleryItem"
    /\ galleryItems[Len(galleryItems)].id = last.ret
    /\ ~diskGallery.has
    /\ settings["dark_mode"] = False
    /\ ~diskSettings.has
    /\ userProfile \in Profiles
    /\ ~diskProfile.has

\* C24: once clearAllData has completed with its removals done, the store
\* holds no settings, no gallery items and no profile, in memory and in
\* durable storage, and the initial load completing afterwards leaves the
\* in-memory view empty.
C24_ClearedIsEmpty ==
    [][(last.op = "clearAllData" /\ last.success)
        => /\ settings = EmptySettings
           /\ galleryItems = <<>>
           /\ userProfile = NoProfile
           /\ ~diskSettings.has
           /\ ~diskGallery.has
           /\ ~diskProfile.has
           /\ (loadState = "read" /\ loadState' = "done")
                 => /\ settings' = EmptySettings
                    /\ galleryItems' = <<>>
                    /\ userProfile' = NoProfile]_vars

\* C25: within one generateStyleMe the steps run in the order upload subject
\* image, upload garment image, submit, parse: the garment upload starts
\* after exactly the subject upload, fal.run is dispatched (once) only with
\* both uploads made and completed, and an invocation that ended in a failed
\* upload or a missing file dispatched no generation request.
C25_UploadsBeforeSubmit ==
    (IsFal(svc) /\ pc # "idle")
        => /\ nGen <= 1
           /\ nGen = 1 <=> (nUploads = 2 /\ (pc = "await" \/ (pc = "done" /\ response # NoAnswer)))
           /\ pc = "upload-user" => nUploads = 0
           /\ pc = "upload-cloth" => nUploads = 1
           /\ pc = "await" => response = NoAnswer
           /\ (pc = "done" /\ response = NoAnswer) => (nGen = 0 /\ ~result.success)

\* A generateStyleMe has uploaded both images, submitted and parsed a result.
C25_Witness ==
    /\ IsFal(svc)
    /\ pc = "done"
    /\ result.success
    /\ nUploads = 2
    /\ nGen = 1
    /\ response # NoAnswer

\* C26: when a generation attempt has ended in Failed, the processing flag
\* is cleared, the generate button is enabled and no call of the workflow is
\* under way; from there a call is started only by the generate handler run
\* again, which checks the key and the images before it calls.
C26_NoAutomaticRetry ==
    [][wfState = "Failed"
        => /\ ~isProcessing
           /\ ~ButtonDisabled
           /\ CallFree
           /\ (pc' \notin {"idle", "done"} \/ nGen' # nGen \/ nUploads' # nUploads
                  \/ attempt' # attempt)
                 => /\ wfState' = "Submitting"
                    /\ isProcessing'
                    /\ caller' = "workflow"
                    /\ Truthy(userImage) /\ Truthy(outfitImage)
                    /\ request' = [user |-> userImage, cloth |-> outfitImage]
                    /\ IsFal(svc) => Truthy(apiKey')]_vars

\* An attempt has ended in Failed with the provider's failure as its result.
C26_Witness ==
    /\ wfState = "Failed"
    /\ pc = "done"
    /\ ~result.success
    /\ nGen > 0
    /\ ~isProcessing

\* C27: generateTryOnWithRetry retries with exponential backoff: it makes at
\* most maxRetries attempts; a successful attempt is returned at once; between
\* two attempts, and not after the last, it waits retryDelay * 2^(attempt-1);
\* after attempt maxRetries has failed it returns a failure that carries that
\* attempt's error.
C27_RetryWithBackoff ==
    [][svc = "openrouter"
        => /\ attempt <= maxRetries
           /\ pc = "backoff" => (attempt >= 1 /\ attempt < maxRetries)
           /\ last.op = "setTimeout"
                 => (pc = "backoff" /\ last.delay = 1000 * 2^(attempt - 1))
           /\ (pc = "done" /\ ~result.success /\ maxRetries >= 1)
                 => attempt = maxRetries
           /\ (pc \notin {"idle", "done", "backoff"} /\ pc' = "backoff")
                 => (last'.op = "setTimeout" /\ attempt' = attempt)
           /\ (pc = "backoff" /\ pc' # "backoff") => attempt' = attempt + 1
           /\ (pc = "await" /\ pc' = "done" /\ result'.success)
                 => /\ attempt' = attempt
                    /\ nGen' = nGen
                    /\ \E mf \in BOOLEAN, mp \in MockResults :
                          result' = OpenRouter_extract(response', mf, mp)
           /\ (pc = "await" /\ pc' = "done" /\ ~result'.success)
                 => /\ attempt = maxRetries
                    /\ \E mf \in BOOLEAN, mp \in MockResults :
                          result'.error =
                            <<"Failed after ", "maxRetries", " attempts. Last error: ">>
                              \o OpenRouter_extract(response', mf, mp).error]_vars

\* The second attempt of three has failed and the wait before the third is
\* twice retryDelay.
C27_Witness ==
    /\ svc = "openrouter"
    /\ last.op = "setTimeout"
    /\ maxRetries = 3
    /\ attempt = 2
    /\ nGen = 2
    /\ last.delay = 2000

\* C28: a store write destroys nothing that durable storage holds: after a
\* setSetting every other setting that was stored is still stored, and after
\* a saveGalleryItem every stored gallery item is still stored, also when the
\* write is made before the initial load has finished.
C28_WriteKeepsPersisted ==
    [][/\ last'.op = "setSetting"
          => \A k \in SettingKeys \ {last'.key} :
                DurableSetting(k) # Undefined
                  => (diskSettings'.has /\ ParseSettings(diskSettings')[k] # Undefined)
       /\ last'.op = "saveGalleryItem"
          => \A i \in 1..Len(ParseGallery(diskGallery)) :
                \E j \in 1..Len(ParseGallery(diskGallery')) :
                   ParseGallery(diskGallery')[j] = ParseGallery(diskGallery)[i]]_vars

\* C29: the two uploads and the generation request of one generateStyleMe
\* all go out with the key that invocation loaded at its start, also when
\* setApiKey or clearApiKey runs between two of its awaited steps.
C29_OneCredentialPerInvocation ==
    [][(IsFal(svc) /\ (nUploads' = nUploads + 1 \/ nGen' = nGen + 1))
        => credentials = atCall.key]_vars

\* C30: the initial load of a fresh process completes whatever the stored
\* items hold, and every section whose item it read and that holds JSON is
\* loaded into the in-memory view, also when another item cannot be parsed.
C30_ValidBlobsLoaded ==
    [][(/\ loadState = "read"
        /\ loadState' = "done"
        /\ loadSnap.ok
        /\ settings = EmptySettings
        /\ galleryItems = <<>>
        /\ userProfile = NoProfile)
        => /\ (loadSnap.settings.has /\ Parses(loadSnap.settings))
                 => settings' = ParseSettings(loadSnap.settings)
           /\ (loadSnap.gallery.has /\ GalleryParses(loadSnap.gallery))
                 => galleryItems' = ParseGallery(loadSnap.gallery)
           /\ (loadSnap.profile.has /\ Parses(loadSnap.profile))
                 => userProfile' = ParseProfile(loadSnap.profile)]_vars

=============================================================================
